---- MODULE Spec2Model ----
(***************************************************************************)
(* Model of the circular-buffer deque of package bfq (src/queue.go).       *)
(*                                                                         *)
(* The Go functions are operators over a record q with the fields of the   *)
(* struct Queue[T] (arr, front, back, length).  arr is a function on       *)
(* 0..len-1, as a Go slice is.  The public methods are the actions of the  *)
(* state machine.  Element values are integers; the code never inspects    *)
(* an element, so the values pushed are pairwise distinct (a counter) and  *)
(* any loss, duplication or reordering of an element is visible.           *)
(***************************************************************************)
EXTENDS Integers, Sequences, FiniteSets, TLC

\* ---------------------------------------------------------------- bounds
\* pushes of a free run
MaxPush == 1
\* longest slice given to FromSlice in a free run
MaxSlice == 9
\* elements a scripted run inserts (slice plus pushes)
MaxDeep == 34
\* pops on an empty queue a run makes
MaxAbsent == 1
\* longest slice given to FromSlice by a caller that only reads
MaxSizer == 66

\* ------------------------------------------------------- program constants
minCapacity == 8

\* the zero value of the element type T ("var zero T")
Zero == 0

\* values an element read from foreign memory may have
Val == 0 .. MaxDeep + 1

\* ------------------------------------------------------- integer operators
\* Go's a & b on non-negative ints
RECURSIVE BitAnd(_, _)
BitAnd(a, b) ==
    IF a = 0 \/ b = 0 THEN 0
    ELSE (a % 2) * (b % 2) + 2 * BitAnd(a \div 2, b \div 2)

\* Go's a | b on non-negative ints
RECURSIVE BitOr(_, _)
BitOr(a, b) ==
    IF a = 0 THEN b
    ELSE IF b = 0 THEN a
    ELSE (IF a % 2 = 1 \/ b % 2 = 1 THEN 1 ELSE 0) + 2 * BitOr(a \div 2, b \div 2)

\* Go's n >> k on non-negative ints
RECURSIVE ShiftR(_, _)
ShiftR(n, k) == IF k = 0 \/ n = 0 THEN n ELSE ShiftR(n \div 2, k - 1)

\* Go's n << k
RECURSIVE ShiftL(_, _)
ShiftL(n, k) == IF k = 0 THEN n ELSE ShiftL(2 * n, k - 1)

\* ------------------------------------------------------------- Go slices
\* len(a)
len(a) == Cardinality(DOMAIN a)

\* make([]T, size): size zero values
make(size) == [i \in 0 .. size - 1 |-> Zero]

\* a[lo:hi]
SliceOf(a, lo, hi) == [i \in 0 .. hi - lo - 1 |-> a[lo + i]]

\* number of elements copy(dst[off:], src) copies
copyN(dst, off, src) ==
    IF len(dst) - off < len(src) THEN len(dst) - off ELSE len(src)

\* dst after copy(dst[off:], src)
copy(dst, off, src) ==
    [i \in DOMAIN dst |->
        IF i >= off /\ i - off < copyN(dst, off, src) THEN src[i - off] ELSE dst[i]]

\* a Go slice (0-based) of a TLA+ sequence (1-based)
ToSlice(s) == [i \in 0 .. Len(s) - 1 |-> s[i + 1]]

\* ------------------------------------------------------------ constructors
NewQueue == [arr |-> make(minCapacity), front |-> 0, back |-> 0, length |-> 0]

\* nextPowerOfTwo without the decrement before the bit smearing
nextPowerOfTwoNoDec(n) ==
    IF n < minCapacity THEN minCapacity
    ELSE LET n1 == BitOr(n, ShiftR(n, 1))
             n2 == BitOr(n1, ShiftR(n1, 2))
             n3 == BitOr(n2, ShiftR(n2, 4))
             n4 == BitOr(n3, ShiftR(n3, 8))
             n5 == BitOr(n4, ShiftR(n4, 16))
             n6 == BitOr(n5, ShiftR(n5, 32))
         IN  n6 + 1

nextPowerOfTwo(n) ==
    IF n < minCapacity THEN minCapacity
    ELSE LET n0 == n - 1
             n1 == BitOr(n0, ShiftR(n0, 1))
             n2 == BitOr(n1, ShiftR(n1, 2))
             n3 == BitOr(n2, ShiftR(n2, 4))
             n4 == BitOr(n3, ShiftR(n3, 8))
             n5 == BitOr(n4, ShiftR(n4, 16))
             n6 == BitOr(n5, ShiftR(n5, 32))
         IN  n6 + 1

\* FromSlice taking the capacity for the length
FromSliceFull(slice) ==
    LET size == nextPowerOfTwo(Len(slice))
    IN  [arr    |-> copy(make(size), 0, ToSlice(slice)),
         front  |-> 0,
         back   |-> Len(slice),
         length |-> size]

FromSlice(slice) ==
    LET size == nextPowerOfTwo(Len(slice))
    IN  [arr    |-> copy(make(size), 0, ToSlice(slice)),
         front  |-> 0,
         back   |-> Len(slice),
         length |-> Len(slice)]

\* ------------------------------------------------------------------ queries
QLen(q) == q.length

\* IsEmpty judging by the cursors, which meet on a full queue too
IsEmptyByCursors(q) == q.front = q.back

IsEmpty(q) == q.length = 0

\* ------------------------------------------------------------------ resizing
\* resize copying arr[front:back] whatever the order of the cursors
\* resize copying the wrapped part arr[:back] ahead of arr[front:]
resizeTailFirst(q, size) ==
    LET newArr == make(size)
        filled ==
            IF q.front < q.back
            THEN copy(newArr, 0, SliceOf(q.arr, q.front, q.back))
            ELSE LET tail == SliceOf(q.arr, 0, q.back)
                     n    == copyN(newArr, 0, tail)
                 IN  copy(copy(newArr, 0, tail), n,
                          SliceOf(q.arr, q.front, len(q.arr)))
    IN  [arr |-> filled, front |-> 0, back |-> q.length, length |-> q.length]

resizeContiguous(q, size) ==
    [arr    |-> copy(make(size), 0, SliceOf(q.arr, q.front, q.back)),
     front  |-> 0,
     back   |-> q.length,
     length |-> q.length]

resize(q, size) ==
    LET newArr == make(size)
        filled ==
            IF q.front < q.back
            THEN copy(newArr, 0, SliceOf(q.arr, q.front, q.back))
            ELSE LET head == SliceOf(q.arr, q.front, len(q.arr))
                     n    == copyN(newArr, 0, head)
                 IN  copy(copy(newArr, 0, head), n, SliceOf(q.arr, 0, q.back))
    IN  [arr |-> filled, front |-> 0, back |-> q.length, length |-> q.length]

\* grow one element before the queue is full
growEarly(q) ==
    IF q.length >= len(q.arr) - 1 THEN resize(q, ShiftL(len(q.arr), 1)) ELSE q

grow(q) ==
    IF q.length = len(q.arr) THEN resize(q, ShiftL(len(q.arr), 1)) ELSE q

\* shrink without the minCapacity floor
\* shrink to a quarter of the capacity instead of a half
\* shrink only once occupancy is below 25%
shrinkBelowQuarter(q) ==
    IF q.length > minCapacity /\ q.length < ShiftR(len(q.arr), 2)
    THEN resize(q, ShiftR(len(q.arr), 1))
    ELSE q

shrinkToQuarter(q) ==
    IF q.length > minCapacity /\ q.length = ShiftR(len(q.arr), 2)
    THEN resize(q, ShiftR(len(q.arr), 2))
    ELSE q

\* shrink at 50% occupancy instead of 25%
shrinkAtHalf(q) ==
    IF q.length > minCapacity /\ q.length = ShiftR(len(q.arr), 1)
    THEN resize(q, ShiftR(len(q.arr), 1))
    ELSE q

shrinkNoFloor(q) ==
    IF q.length = ShiftR(len(q.arr), 2)
    THEN resize(q, ShiftR(len(q.arr), 1))
    ELSE q

\* shrink with the floor test length >= minCapacity instead of >
shrinkFloorInclusive(q) ==
    IF q.length >= minCapacity /\ q.length = ShiftR(len(q.arr), 2)
    THEN resize(q, ShiftR(len(q.arr), 1))
    ELSE q

shrink(q) ==
    IF q.length > minCapacity /\ q.length = ShiftR(len(q.arr), 2)
    THEN resize(q, ShiftR(len(q.arr), 1))
    ELSE q

\* -------------------------------------------------------- unchecked access
\* indexUnsafe(index) addresses base + index*size without a bounds check:
\* the address is a slot of arr exactly when index is in [0, len(arr)).
InBounds(q, index) == index \in DOMAIN q.arr

\* the access one call of indexUnsafe makes: the index and len(arr) then
Access(q, index) == [idx |-> index, cap |-> len(q.arr)]

\* values a load through indexUnsafe(index) can yield: the slot's value, or
\* whatever lies in the memory beyond the array
Load(q, index) == IF InBounds(q, index) THEN {q.arr[index]} ELSE Val

\* arr after a store through indexUnsafe(index): a store beyond the array
\* lands in foreign memory and leaves arr as it is
Store(q, index, v) ==
    IF InBounds(q, index) THEN [q.arr EXCEPT ![index] = v] ELSE q.arr

\* --------------------------------------------------------------- methods
\* Each method is the set of its outcomes [q, v, ok, s, acc, fault]: the queue
\* afterwards, the returned value and presence flag, the rendered elements
\* (String), the accesses made through indexUnsafe, and whether the program
\* faulted.  An access beyond the array is undefined behaviour: either it
\* goes through to foreign memory or the program faults at that point.
Outcome(q1, v, ok, acc) ==
    [q |-> q1, v |-> v, ok |-> ok, s |-> <<>>, acc |-> acc, fault |-> FALSE]

Fault(q1, acc) ==
    [q |-> q1, v |-> Zero, ok |-> FALSE, s |-> <<>>, acc |-> acc, fault |-> TRUE]

\* the fault outcome, possible only when index is beyond the array
MayFault(q1, index) ==
    IF InBounds(q1, index) THEN {} ELSE {Fault(q1, {Access(q1, index)})}

\* PushFront storing before it moves the cursor
PushFrontStoreFirst(q, v) ==
    LET g == grow(q)
        f == BitAnd(g.front - 1 + len(g.arr), len(g.arr) - 1)
    IN  {Outcome([g EXCEPT !.arr = Store(g, g.front, v), !.front = f,
                           !.length = g.length + 1],
                 Zero, TRUE, {Access(g, g.front)})}
        \cup MayFault(g, g.front)

PushFront(q, v) ==
    LET g == grow(q)
        f == BitAnd(g.front - 1 + len(g.arr), len(g.arr) - 1)
        m == [g EXCEPT !.front = f]
    IN  {Outcome([m EXCEPT !.arr = Store(m, f, v), !.length = m.length + 1],
                 Zero, TRUE, {Access(m, f)})}
        \cup MayFault(m, f)

\* PushBack advancing the cursor without the wraparound mask
PushBackNoWrap(q, v) ==
    LET g == grow(q)
    IN  {Outcome([g EXCEPT !.arr = Store(g, g.back, v), !.back = g.back + 1,
                           !.length = g.length + 1],
                 Zero, TRUE, {Access(g, g.back)})}
        \cup MayFault(g, g.back)

PushBack(q, v) ==
    LET g == grow(q)
        b == BitAnd(g.back + 1, len(g.arr) - 1)
    IN  {Outcome([g EXCEPT !.arr = Store(g, g.back, v), !.back = b,
                           !.length = g.length + 1],
                 Zero, TRUE, {Access(g, g.back)})}
        \cup MayFault(g, g.back)

\* PopFront reading after it moved the cursor
\* PopFront taking a stored zero value for an empty slot
PopFrontZeroAbsent(q) ==
    IF IsEmpty(q) THEN {Outcome(q, Zero, FALSE, {})}
    ELSE LET f == BitAnd(q.front + 1, len(q.arr) - 1)
         IN  {Outcome(shrink([q EXCEPT !.front = f, !.length = q.length - 1]),
                      v, v # Zero, {Access(q, q.front)}) : v \in Load(q, q.front)}
             \cup MayFault(q, q.front)

PopFrontAdvanceFirst(q) ==
    IF IsEmpty(q) THEN {Outcome(q, Zero, FALSE, {})}
    ELSE LET f == BitAnd(q.front + 1, len(q.arr) - 1)
             m == [q EXCEPT !.front = f]
         IN  {Outcome(shrink([m EXCEPT !.length = m.length - 1]),
                      v, TRUE, {Access(m, f)}) : v \in Load(m, f)}
             \cup MayFault(m, f)

PopFront(q) ==
    IF IsEmpty(q) THEN {Outcome(q, Zero, FALSE, {})}
    ELSE LET f == BitAnd(q.front + 1, len(q.arr) - 1)
         IN  {Outcome(shrink([q EXCEPT !.front = f, !.length = q.length - 1]),
                      v, TRUE, {Access(q, q.front)}) : v \in Load(q, q.front)}
             \cup MayFault(q, q.front)

PopBack(q) ==
    IF IsEmpty(q) THEN {Outcome(q, Zero, FALSE, {})}
    ELSE LET b == BitAnd(q.back - 1 + len(q.arr), len(q.arr) - 1)
             m == [q EXCEPT !.back = b]
         IN  {Outcome(shrink([m EXCEPT !.length = m.length - 1]),
                      v, TRUE, {Access(m, b)}) : v \in Load(m, b)}
             \cup MayFault(m, b)

Front(q) ==
    IF IsEmpty(q) THEN {Outcome(q, Zero, FALSE, {})}
    ELSE {Outcome(q, v, TRUE, {Access(q, q.front)}) : v \in Load(q, q.front)}
         \cup MayFault(q, q.front)

\* Back without the check for an empty queue
\* Back reading the slot at the back cursor, one past the last element
BackAtCursor(q) ==
    IF IsEmpty(q) THEN {Outcome(q, Zero, FALSE, {})}
    ELSE {Outcome(q, v, TRUE, {Access(q, q.back)}) : v \in Load(q, q.back)}
         \cup MayFault(q, q.back)

BackUnchecked(q) ==
    LET b == BitAnd(q.back - 1 + len(q.arr), len(q.arr) - 1)
    IN  {Outcome(q, v, TRUE, {Access(q, b)}) : v \in Load(q, b)}
        \cup MayFault(q, b)

Back(q) ==
    IF IsEmpty(q) THEN {Outcome(q, Zero, FALSE, {})}
    ELSE LET b == BitAnd(q.back - 1 + len(q.arr), len(q.arr) - 1)
         IN  {Outcome(q, v, TRUE, {Access(q, b)}) : v \in Load(q, b)}
             \cup MayFault(q, b)

\* the indices String reads from iteration i on, idx being the loop's idx
RECURSIVE StringIdx(_, _, _)
StringIdx(q, i, idx) ==
    IF i >= q.length THEN <<>>
    ELSE <<idx>> \o StringIdx(q, i + 1, BitAnd(idx + 1, len(q.arr) - 1))

\* the element lists String can render reading the indices ix (the loop
\* is split in halves, which renders the same lists front to back)
RECURSIVE Rendered(_, _)
Rendered(q, ix) ==
    IF ix = <<>> THEN {<<>>}
    ELSE IF Len(ix) = 1 THEN {<<v>> : v \in Load(q, ix[1])}
    ELSE LET h == Len(ix) \div 2
         IN  {l \o r : l \in Rendered(q, SubSeq(ix, 1, h)),
                       r \in Rendered(q, SubSeq(ix, h + 1, Len(ix)))}

\* String: the elements rendered between '[' and ']', front to back
String(q) ==
    LET ix  == StringIdx(q, 0, q.front)
        all == {Access(q, ix[i]) : i \in DOMAIN ix}
    IN  {[Outcome(q, Zero, TRUE, all) EXCEPT !.s = r] : r \in Rendered(q, ix)}
        \cup UNION {MayFault(q, ix[i]) : i \in DOMAIN ix}

\* ------------------------------------------------------------------- state
VARIABLES
    q,        \* the Queue[T] struct
    crashed,  \* the program faulted on an access beyond the array
    ret,      \* the last call: [op, v, ok, s]
    acc,      \* the accesses the last call made through indexUnsafe
    ctor,     \* the constructor that built q
    slice,    \* the slice given to FromSlice (<<>> for NewQueue)
    abs,      \* the abstract sequence under the same operations
    aret,     \* what the last call returns on the abstract sequence
    npush,    \* pushes made
    npop,     \* pops that found an element
    nabsent,  \* pops that found the queue empty
    script,   \* the caller's program: which end it pushes to and pops from
    resized   \* the last push or pop replaced the backing array

vars == <<q, crashed, ret, acc, ctor, slice, abs, aret, npush, npop,
          nabsent, script, resized>>

\* the callers of queue_test.go: each pushes N elements and then pops
\* them, at the front (F), at the back (B) or alternating (mix)
Scripts == [push : {"F", "B", "mix"}, pop : {"F", "B", "mix"}]

\* the callers that only pop what FromSlice put in
RoundTrips == [push : {"none"}, pop : {"F", "B", "mix"}]

\* a caller that calls anything at any time
Free == [push |-> "any", pop |-> "any"]

\* a caller that neither pushes nor pops
Idle == [push |-> "none", pop |-> "none"]

NoCall == [op |-> "new", v |-> Zero, ok |-> FALSE, s |-> <<>>]

InitWith(c, S, sc) ==
    /\ q = (IF c = "NewQueue" THEN NewQueue ELSE FromSlice(S))
    /\ crashed = FALSE
    /\ ret = NoCall
    /\ aret = [v |-> Zero, ok |-> FALSE]
    /\ acc = {}
    /\ ctor = c
    /\ slice = S
    /\ abs = S
    /\ npush = 0
    /\ npop = 0
    /\ nabsent = 0
    /\ script = sc
    /\ resized = FALSE

\* the slice <<1, ..., n>>
Iota(n) == [i \in 1 .. n |-> i]

InitNew(scs) == \E sc \in scs : InitWith("NewQueue", <<>>, sc)

InitSlice(scs, max) ==
    \E n \in 0 .. max : \E sc \in scs : InitWith("FromSlice", Iota(n), sc)

Init ==
    \/ InitNew({Free} \cup Scripts)
    \/ InitSlice({Free}, MaxSlice)
    \/ InitSlice(RoundTrips, MaxDeep)
    \/ InitSlice({Idle}, MaxSizer)

\* the value the next push inserts: values are numbered in insertion order
NextVal == Len(slice) + npush + 1

\* the values a push may insert: the numbered value, and for the free
\* caller of a new queue the zero value of T as well (a nil pointer, say)
PushVals ==
    IF script = Free /\ ctor = "NewQueue" THEN {Zero, NextVal} ELSE {NextVal}

\* ----------------------------------------------------------------- callers
\* the caller may push at end e now
MayPush(e) ==
    /\ ~crashed
    /\ \/ script.push = "any" /\ npush < MaxPush
       \/ /\ script.push # "any" /\ NextVal <= MaxDeep
          /\ npop = 0 /\ nabsent = 0
          /\ \/ script.push = e
             \/ script.push = "mix" /\ e = (IF npush % 2 = 0 THEN "B" ELSE "F")

\* the caller may pop at end e now
MayPop(e) ==
    /\ ~crashed
    /\ IsEmpty(q) => nabsent < MaxAbsent
    /\ \/ script.pop \in {"any", e}
       \/ script.pop = "mix" /\ e = (IF (npop + nabsent) % 2 = 0 THEN "F" ELSE "B")

\* the state after a call op with outcome o, abstract result ar and
\* abstract sequence as
Called(op, o, as, ar) ==
    /\ q' = o.q
    /\ crashed' = o.fault
    /\ ret' = [op |-> op, v |-> o.v, ok |-> o.ok, s |-> o.s]
    /\ acc' = o.acc
    /\ abs' = as
    /\ aret' = ar
    /\ resized' = (IF op \in {"PushFront", "PushBack", "PopFront", "PopBack"}
                   THEN len(o.q.arr) # len(q.arr)
                   ELSE resized)
    /\ UNCHANGED <<ctor, slice, script>>

AbsFront == IF abs = <<>> THEN [v |-> Zero, ok |-> FALSE]
            ELSE [v |-> Head(abs), ok |-> TRUE]

AbsBack == IF abs = <<>> THEN [v |-> Zero, ok |-> FALSE]
           ELSE [v |-> abs[Len(abs)], ok |-> TRUE]

DoPushFront ==
    /\ MayPush("F")
    /\ \E v \in PushVals : \E o \in PushFront(q, v) :
          Called("PushFront", o, <<v>> \o abs, [v |-> Zero, ok |-> TRUE])
    /\ npush' = npush + 1
    /\ UNCHANGED <<npop, nabsent>>

DoPushBack ==
    /\ MayPush("B")
    /\ \E v \in PushVals : \E o \in PushBack(q, v) :
          Called("PushBack", o, Append(abs, v), [v |-> Zero, ok |-> TRUE])
    /\ npush' = npush + 1
    /\ UNCHANGED <<npop, nabsent>>

DoPopFront ==
    /\ MayPop("F")
    /\ \E o \in PopFront(q) :
          /\ Called("PopFront", o, IF abs = <<>> THEN abs ELSE Tail(abs), AbsFront)
          /\ npop' = npop + (IF o.ok THEN 1 ELSE 0)
          /\ nabsent' = nabsent + (IF o.ok \/ o.fault THEN 0 ELSE 1)
    /\ UNCHANGED npush

DoPopBack ==
    /\ MayPop("B")
    /\ \E o \in PopBack(q) :
          /\ Called("PopBack", o,
                    IF abs = <<>> THEN abs ELSE SubSeq(abs, 1, Len(abs) - 1), AbsBack)
          /\ npop' = npop + (IF o.ok THEN 1 ELSE 0)
          /\ nabsent' = nabsent + (IF o.ok \/ o.fault THEN 0 ELSE 1)
    /\ UNCHANGED npush

DoFront ==
    /\ ~crashed
    /\ \E o \in Front(q) : Called("Front", o, abs, AbsFront)
    /\ UNCHANGED <<npush, npop, nabsent>>

DoBack ==
    /\ ~crashed
    /\ \E o \in Back(q) : Called("Back", o, abs, AbsBack)
    /\ UNCHANGED <<npush, npop, nabsent>>

DoLen ==
    /\ ~crashed
    /\ Called("Len", Outcome(q, QLen(q), TRUE, {}), abs, [v |-> Len(abs), ok |-> TRUE])
    /\ UNCHANGED <<npush, npop, nabsent>>

DoIsEmpty ==
    /\ ~crashed
    /\ Called("IsEmpty", Outcome(q, Zero, IsEmpty(q), {}), abs,
              [v |-> Zero, ok |-> abs = <<>>])
    /\ UNCHANGED <<npush, npop, nabsent>>

DoString ==
    /\ ~crashed
    /\ \E o \in String(q) : Called("String", o, abs, [v |-> Zero, ok |-> TRUE])
    /\ UNCHANGED <<npush, npop, nabsent>>

Next ==
    \/ DoPushFront
    \/ DoPushBack
    \/ DoPopFront
    \/ DoPopBack
    \/ DoFront
    \/ DoBack
    \/ DoLen
    \/ DoIsEmpty
    \/ DoString

Spec == Init /\ [][Next]_vars

\* ================================================================== claims
\* the logical content: arr[(front + i) mod capacity] for i in [0, length)
Content == [i \in 1 .. q.length |-> q.arr[(q.front + i - 1) % len(q.arr)]]

\* the last call returned what the abstract sequence returns
SameResult == ret.v = aret.v /\ ret.ok = aret.ok

RECURSIVE IsPowerOfTwo(_)
IsPowerOfTwo(n) == n = 1 \/ (n > 1 /\ n % 2 = 0 /\ IsPowerOfTwo(n \div 2))

\* the run has had more than 32 live elements, so capacity has reached 64
WasDeep == Len(slice) + npush > 32

Pops == {"PopFront", "PopBack"}

\* C1: a queue made by NewQueue holds, read from front circularly, the
\* abstract sequence under the same calls; every call returns what the
\* abstract sequence returns and length is the abstract length.
C1_NewQueueRefines ==
    ctor = "NewQueue" =>
        /\ Content = abs
        /\ SameResult
        /\ QLen(q) = Len(abs)

\* a queue made by NewQueue that grew, wrapped around and was popped
C1_Witness ==
    /\ ctor = "NewQueue" /\ ret.op = "PopBack" /\ ret.ok
    /\ len(q.arr) > minCapacity /\ q.front > q.back /\ q.length > 0

\* C2: every index handed to indexUnsafe lies in [0, capacity).
C2_IndexInRange == \A a \in acc : 0 <= a.idx /\ a.idx < a.cap

\* C3: capacity is a power of two, at least minCapacity, and
\* 0 <= length <= capacity.
C3_CapacityInvariant ==
    /\ IsPowerOfTwo(len(q.arr))
    /\ len(q.arr) >= minCapacity
    /\ 0 <= q.length /\ q.length <= len(q.arr)

\* a queue that grew to 64 slots and shrank to 32
C3_Witness ==
    /\ WasDeep /\ ret.op \in Pops /\ len(q.arr) = 32 /\ q.length = 16

\* C4: both cursors are indices of the backing array.
C4_CursorsInRange ==
    /\ 0 <= q.front /\ q.front < len(q.arr)
    /\ 0 <= q.back /\ q.back < len(q.arr)

\* C5: a queue made by FromSlice(S) returns, from every call that returns,
\* what the abstract sequence initialised to S returns, and length is the
\* abstract length.
C5_FromSliceRefines ==
    (ctor = "FromSlice" /\ ~crashed) => SameResult /\ QLen(q) = Len(abs)

\* C6: FIFO.  After PushBack of v1..vN onto a new queue, the k-th PopFront
\* returns (vk, true) for k = 1..N.  The values are numbered: vk = k.
C6_FIFO ==
    (ctor = "NewQueue" /\ script = [push |-> "B", pop |-> "F"]
        /\ ret.op = "PopFront" /\ npop + nabsent <= npush)
    => ret.ok /\ ret.v = npop

\* all of more than 32 elements came out, through growth and a shrink
C6_Witness ==
    /\ ctor = "NewQueue" /\ script = [push |-> "B", pop |-> "F"]
    /\ ret.op = "PopFront" /\ ret.ok
    /\ WasDeep /\ npop = npush /\ len(q.arr) = 32

\* C7: LIFO at one end.  After PushFront of v1..vN onto a new queue Front
\* returns vN and the k-th PopFront returns v(N-k+1); the same for PushBack,
\* Back and PopBack.
C7_LIFO ==
    /\ (ctor = "NewQueue" /\ script = [push |-> "F", pop |-> "F"]) =>
          /\ (ret.op = "Front" /\ npush > 0 /\ npop = 0 /\ nabsent = 0)
                => ret.ok /\ ret.v = npush
          /\ (ret.op = "PopFront" /\ npop + nabsent <= npush)
                => ret.ok /\ ret.v = npush - npop + 1
    /\ (ctor = "NewQueue" /\ script = [push |-> "B", pop |-> "B"]) =>
          /\ (ret.op = "Back" /\ npush > 0 /\ npop = 0 /\ nabsent = 0)
                => ret.ok /\ ret.v = npush
          /\ (ret.op = "PopBack" /\ npop + nabsent <= npush)
                => ret.ok /\ ret.v = npush - npop + 1

\* the first element pushed at the front came out last, after resizes
C7_Witness ==
    /\ ctor = "NewQueue" /\ script = [push |-> "F", pop |-> "F"]
    /\ ret.op = "PopFront" /\ ret.ok /\ ret.v = 1
    /\ WasDeep /\ npop = npush

\* C8: round trip.  FromSlice(S) and then PopFront calls: the k-th returns
\* (S[k], true) for k = 1..|S|, the queue is then empty, and a further
\* PopFront reports absence.
C8_RoundTrip ==
    (ctor = "FromSlice" /\ script = [push |-> "none", pop |-> "F"]) =>
        /\ ret.op = "PopFront" =>
              IF npop + nabsent <= Len(slice)
              THEN ret.ok /\ ret.v = slice[npop]
              ELSE ~ret.ok
        /\ npop = Len(slice) => IsEmpty(q)

\* a slice as long as its capacity was popped to the end and once more
C8_Witness ==
    /\ ctor = "FromSlice" /\ script = [push |-> "none", pop |-> "F"]
    /\ Len(slice) = 16 /\ npop = 16 /\ nabsent = 1 /\ ret.op = "PopFront"

\* C9: on an empty queue PopFront, PopBack, Front and Back return
\* (zero value, false) and leave the queue as it is.
C9_EmptyIsAbsent ==
    [][(IsEmpty(q) /\ ret'.op \in {"PopFront", "PopBack", "Front", "Back"})
        => (~ret'.ok /\ ret'.v = Zero /\ q' = q /\ QLen(q') = 0)]_vars

\* a pop on a queue that was filled, grew and was emptied again
C9_Witness ==
    /\ IsEmpty(q) /\ ret.op \in Pops /\ ~ret.ok
    /\ npop > minCapacity /\ len(q.arr) > minCapacity

\* C10: N pushes onto a new queue and then N pops, at whichever ends: each
\* of the N pops reports presence and the queue is empty afterwards.
C10_PushPopStable ==
    (ctor = "NewQueue" /\ script # Free) =>
        /\ nabsent > 0 => npop = npush
        /\ npop = npush => IsEmpty(q) /\ QLen(q) = 0

\* more than 32 elements pushed and popped at alternating ends
C10_Witness ==
    /\ ctor = "NewQueue" /\ script = [push |-> "mix", pop |-> "mix"]
    /\ WasDeep /\ npop = npush /\ ret.op \in Pops /\ len(q.arr) = 32

Peeks == {"Front", "Back"}

\* C11: a pop or peek reports absence exactly when length = 0 at the call;
\* a stored zero value comes back with present = true.
C11_AbsentIffEmpty ==
    [][(ret'.op \in Pops \cup Peeks /\ ~crashed')
        => /\ ret'.ok <=> ~IsEmpty(q)
           /\ (aret'.ok /\ aret'.v = Zero) => ret'.ok]_vars

\* the zero value was pushed onto a new queue and popped as present
C11_Witness ==
    /\ ctor = "NewQueue" /\ ret.op = "PopFront"
    /\ ret.ok /\ ret.v = Zero /\ aret.ok /\ aret.v = Zero

\* C12: right after FromSlice(S): capacity = nextPowerOfTwo(|S|), arr holds S
\* in its first |S| slots, front = 0, length = |S| and
\* back = |S| AND (capacity - 1).
C12_FromSliceState ==
    (ctor = "FromSlice" /\ ret.op = "new") =>
        /\ len(q.arr) = nextPowerOfTwo(Len(slice))
        /\ \A i \in 1 .. Len(slice) : q.arr[i - 1] = slice[i]
        /\ q.front = 0
        /\ q.length = Len(slice)
        /\ q.back = BitAnd(Len(slice), len(q.arr) - 1)

Pushes == {"PushFront", "PushBack"}

\* the slots holding the live elements of a queue g
LiveSlots(g) == {(g.front + i) % len(g.arr) : i \in 0 .. g.length - 1}

\* C13: a push reallocates exactly when length = capacity on entry, and then
\* to twice the capacity; at the write length < capacity and the slot
\* written holds no live element; length <= capacity after the push.
C13_GrowthPolicy ==
    [][(ret'.op \in Pushes /\ ~crashed')
        => LET g == grow(q)
           IN  /\ len(q'.arr) = (IF q.length = len(q.arr)
                                 THEN 2 * len(q.arr) ELSE len(q.arr))
               /\ \A a \in acc' : /\ a.cap = len(q'.arr)
                                  /\ q.length < a.cap
                                  /\ a.idx \notin LiveSlots(g)
               /\ acc' # {}
               /\ q'.length = q.length + 1
               /\ q'.length <= len(q'.arr)]_vars

\* a push at the front found 16 slots full and doubled them
C13_Witness ==
    /\ ret.op = "PushFront" /\ resized
    /\ len(q.arr) = 32 /\ q.length = 17 /\ q.front = 31

\* C14: a successful pop reallocates exactly when, after the decrement,
\* length > 8 and length = capacity / 4, and then to capacity / 2, half
\* full; otherwise capacity is unchanged; capacity never drops below 8.
C14_ShrinkPolicy ==
    [][(ret'.op \in Pops /\ ret'.ok)
        => LET n == q.length - 1
               c == len(q.arr)
           IN  /\ q'.length = n
               /\ IF n > minCapacity /\ 4 * n = c
                  THEN len(q'.arr) * 2 = c /\ q'.length * 2 = len(q'.arr)
                  ELSE len(q'.arr) = c
               /\ len(q'.arr) >= minCapacity]_vars

\* a pop at the back brought 64 slots down to 32
C14_Witness ==
    /\ ret.op = "PopBack" /\ ret.ok /\ resized
    /\ len(q.arr) = 32 /\ q.length = 16

Relinearised(g, r) ==
    /\ r.front = 0
    /\ r.back = r.length /\ r.length = g.length
    /\ r.length < len(r.arr)
    /\ \A i \in 0 .. g.length - 1 :
          r.arr[i] = g.arr[(g.front + i) % len(g.arr)]

\* C16: every resize made by grow or shrink preserves the logical sequence.
\* For grow: the resize of any full queue a push can start from.  For
\* shrink: the pop's last act is the resize, so the queue after the pop is
\* the relinearised queue of the pop's cursor move and decrement.
C16_ResizePreserves ==
    [][/\ q.length = len(q.arr)
          => Relinearised(q, resize(q, 2 * len(q.arr)))
       /\ (ret'.op \in Pops /\ ret'.ok /\ len(q'.arr) # len(q.arr))
          => /\ len(q'.arr) * 2 = len(q.arr)
             /\ Relinearised(
                  [q EXCEPT !.length = q.length - 1,
                            !.front = IF ret'.op = "PopFront"
                                      THEN (q.front + 1) % len(q.arr)
                                      ELSE q.front],
                  q')]_vars

\* a shrink of a queue whose live range wrapped around the end of arr
C16_Witness ==
    /\ ctor = "NewQueue" /\ script = [push |-> "F", pop |-> "B"]
    /\ WasDeep /\ ret.op = "PopBack" /\ resized /\ len(q.arr) = 32

\* the results (value, presence) among the outcomes os
Results(os) == {[v |-> o.v, ok |-> o.ok] : o \in os}

\* C17: Front, Back, Len and IsEmpty leave the queue as it is, and on a
\* non-empty queue Front returns what PopFront returns from the same state
\* and Back what PopBack returns; a pop right after the peek returns it.
C17_PeeksPure ==
    [][/\ ret'.op \in Peeks \cup {"Len", "IsEmpty"} => q' = q
       /\ (ret'.op = "Front" /\ ret'.ok)
            => Results(PopFront(q)) = {[v |-> ret'.v, ok |-> TRUE]}
       /\ (ret'.op = "Back" /\ ret'.ok)
            => Results(PopBack(q)) = {[v |-> ret'.v, ok |-> TRUE]}
       /\ (ret.op = "Front" /\ ret.ok /\ ret'.op = "PopFront")
            => ret'.v = ret.v /\ ret'.ok
       /\ (ret.op = "Back" /\ ret.ok /\ ret'.op = "PopBack")
            => ret'.v = ret.v /\ ret'.ok]_vars

\* a Back on a queue whose back cursor has wrapped to 0, the last element
\* lying in the last slot of arr
C17_Witness ==
    /\ ret.op = "Back" /\ ret.ok /\ q.back < q.front /\ q.back = 0
    /\ q.length > 1

\* p is what nextPowerOfTwo is to return for n
IsNextPowerOfTwo(n, p) ==
    /\ n < 8 => p = 8
    /\ n >= 8 => IsPowerOfTwo(p) /\ p >= n /\ p \div 2 < n
    /\ (n >= 8 /\ IsPowerOfTwo(n)) => p = n

\* the sizes tried along with a slice length n: n and the sizes around
\* 1024 * n, for which the shifts by 8 and 16 matter
SizesFor(n) == {m \in {n, 1024 * n - 1, 1024 * n, 1024 * n + 1} : m >= 0}

C19_CursorConsistency ==
    ctor = "NewQueue" =>
        /\ q.back = (q.front + q.length) % len(q.arr)
        /\ q.front = q.back <=> q.length \in {0, len(q.arr)}

\* a full queue whose cursors meet in the middle of arr
C19_Witness ==
    /\ ctor = "NewQueue" /\ q.length = len(q.arr)
    /\ q.front = q.back /\ q.front > 0 /\ ret.op \in Pushes

\* C20: whenever capacity >= 64 the buffer is more than a quarter full.
C20_Occupancy == len(q.arr) >= 64 => 4 * q.length > len(q.arr)

\* 64 slots popped down to 17 elements, one pop short of the shrink
C20_Witness ==
    /\ len(q.arr) = 64 /\ q.length = 17 /\ ret.op \in Pops /\ ret.ok

\* C21: the capacity decreases only from 64 slots or more, and then to no
\* fewer than 32; a capacity of 16 or 32 never decreases; a capacity above 8
\* never returns to 8, and a queue drained to empty after holding more than
\* 8 elements still has more than 8 slots.
C21_ShrinkFloor ==
    [][/\ len(q'.arr) < len(q.arr)
            => /\ ret'.op \in Pops
               /\ len(q.arr) >= 64
               /\ len(q'.arr) >= 32
       /\ len(q.arr) \in {16, 32} => len(q'.arr) >= len(q.arr)
       /\ len(q.arr) > minCapacity => len(q'.arr) > minCapacity
       /\ (IsEmpty(q') /\ script # Free /\ Len(slice) + npush > minCapacity)
            => len(q'.arr) > minCapacity]_vars

\* a queue that grew to 64 slots and shrank once, drained to empty by pops:
\* it keeps its 32 slots
C21_Witness ==
    /\ WasDeep /\ IsEmpty(q) /\ len(q.arr) = 32
    /\ ret.op \in Pops /\ ret.ok /\ script \in Scripts

====
